---- MODULE Spec2Model ----
(***************************************************************************)
(* Model of the analytical core of `gix hours`:                            *)
(*   - spawn_tree_delta_threads: the worker pool that diffs commits        *)
(*     (gitoxide-core/src/hours/core.rs, lines 84-196)                     *)
(*   - deduplicate_identities (core.rs, lines 198-223)                     *)
(*   - the mailmap Snapshot exercised by gix-mailmap/tests/snapshot/mod.rs *)
(***************************************************************************)
EXTENDS Integers, Sequences, FiniteSets, TLC

VARIABLES
    \* ---- spawn_tree_delta_threads ----
    threads,        \* number of workers spawned (argument `threads`)
    line_stats,     \* argument `line_stats`
    tx_open,        \* the Sender returned to the caller is still alive
    channel,        \* crossbeam unbounded channel: sequence of batches
    submitted,      \* number of work items sent so far (their commit_idx is 1..submitted)
    interrupt,      \* gix::interrupt::is_triggered()
    commits,        \* stat_counters.0
    changes,        \* stat_counters.1
    lines_count,    \* stat_counters.2
    pc,             \* per worker: position in the closure
    chunk,          \* per worker: rest of the batch being iterated
    cur,            \* per worker: the item taken from the batch
    files,          \* per worker: `files` of the current item
    lines,          \* per worker: `lines` of the current item
    nchg,           \* per worker: changes reported so far by the current diff
    out,            \* per worker: `out`
    taken,          \* history: commit_idx -> sequence of workers that took the item
    skipped,        \* history: commit_idx -> "parent" | "commit", the lookup an item was skipped for
    failed,         \* history: commit_idx of items on which the diff failed
    atInterrupt,    \* history: per worker, what it had done when the flag was raised
    \* ---- deduplicate_identities ----
    persons,        \* argument `persons`
    pos,            \* number of records of `persons` the loop has consumed
    email_to_index, \* HashMap email -> index into the output
    name_to_index,  \* HashMap name -> index into the output
    out_persons,    \* `out` of deduplicate_identities
    group,          \* history: for each consumed record, the output index it went to
    \* ---- mailmap Snapshot ----
    snapshot,       \* the rule table: normalized email -> bucket
    inserted,       \* history: the entries merged into the snapshot, in order
    query,          \* the signature last resolved, if any
    answer,         \* what try_resolve returned for it
    resolved,       \* what resolve returned for it
    \* ---- estimate_hours ----
    author_commits, \* argument `commits`: one author's commits, newest first
    stats,          \* argument `stats`: the CommitStats sorted by commit index
    est_pc,         \* "call" | "returned" | "panicked"
    work_by_email,  \* the WorkByEmail returned, if any
    \* ---- the callback of for_each_to_obtain_tree, over one commit ----
    diff,           \* the changes the tree diff reports for the commit
    diff_pos,       \* number of changes the callback has been called for
    diff_line_stats,\* `line_stats`
    diff_files,     \* `files` of the commit
    diff_lines      \* `lines` of the commit

pipeVars == <<threads, line_stats, tx_open, channel, submitted, interrupt,
              commits, changes, lines_count, pc, chunk, cur, files, lines,
              nchg, out, taken, skipped, failed, atInterrupt>>

dedupVars == <<persons, pos, email_to_index, name_to_index, out_persons, group>>

mapVars == <<snapshot, inserted, query, answer, resolved>>

estVars == <<author_commits, stats, est_pc, work_by_email>>

diffVars == <<diff, diff_pos, diff_line_stats, diff_files, diff_lines>>

\* what the worker pool leaves alone
besidesPipe == <<dedupVars, mapVars, estVars, diffVars>>

\* what deduplicate_identities leaves alone
besidesDedup == <<pipeVars, mapVars, estVars, diffVars>>

\* what the mailmap snapshot leaves alone
besidesMap == <<pipeVars, dedupVars, estVars, diffVars>>

\* what estimate_hours leaves alone
besidesEst == <<pipeVars, dedupVars, mapVars, diffVars>>

\* what the diff callback leaves alone
besidesDiff == <<pipeVars, dedupVars, mapVars, estVars>>

vars == <<pipeVars, dedupVars, mapVars, estVars, diffVars>>

----------------------------------------------------------------------------
\* Bounds of the model
MaxThreads == 2
MaxItems   == 3
MaxBatch   == 2
MaxChanges == 1

----------------------------------------------------------------------------
\* FileStats / LineStats and the classification of one tree change

ZeroFiles == [added |-> 0, removed |-> 0, modified |-> 0]
ZeroLines == [added |-> 0, removed |-> 0]

EntryKinds == {"Tree", "Blob", "BlobExecutable", "Link", "Commit"}

IsBlob(mode)   == mode \in {"Blob", "BlobExecutable"}
IsNoTree(mode) == mode # "Tree"

\* add_lines / remove_lines: count the lines of the blob when line statistics
\* are enabled; returns <<lines', increment of lines_count>>
add_lines(ls, l, nl) ==
    IF ls THEN <<[l EXCEPT !.added = @ + nl], nl>> ELSE <<l, 0>>

remove_lines(ls, l, nl) ==
    IF ls THEN <<[l EXCEPT !.removed = @ + nl], nl>> ELSE <<l, 0>>

\* A change as reported by the tree diff.
\*   kind: "Addition" | "Deletion" | "Modification"
\*   entry_mode, previous_entry_mode: one of EntryKinds
\*   nl: line count of the object `id`; pnl: of `previous_id`
\*   ins, rem: insertions/removals of the content diff, has_counts: line_counts() is Some
Addition(mode, nl) ==
    [kind |-> "Addition", entry_mode |-> mode, previous_entry_mode |-> mode,
     nl |-> nl, pnl |-> 0, ins |-> 0, rem |-> 0, has_counts |-> FALSE]
Deletion(mode, nl) ==
    [kind |-> "Deletion", entry_mode |-> mode, previous_entry_mode |-> mode,
     nl |-> nl, pnl |-> 0, ins |-> 0, rem |-> 0, has_counts |-> FALSE]
Modification(prev, mode, pnl, nl, ins, rem, has) ==
    [kind |-> "Modification", entry_mode |-> mode, previous_entry_mode |-> prev,
     nl |-> nl, pnl |-> pnl, ins |-> ins, rem |-> rem, has_counts |-> has]

\* ApplyChange counting an addition or deletion only when the entry is a blob
ApplyChange_BlobsOnly(c, ls, f, l) ==
    CASE c.kind = "Addition" ->
            IF IsBlob(c.entry_mode)
            THEN LET r == add_lines(ls, l, c.nl)
                 IN [files |-> [f EXCEPT !.added = @ + 1], lines |-> r[1], counted |-> r[2]]
            ELSE [files |-> f, lines |-> l, counted |-> 0]
      [] c.kind = "Deletion" ->
            IF IsBlob(c.entry_mode)
            THEN LET r == remove_lines(ls, l, c.nl)
                 IN [files |-> [f EXCEPT !.removed = @ + 1], lines |-> r[1], counted |-> r[2]]
            ELSE [files |-> f, lines |-> l, counted |-> 0]
      [] c.kind = "Modification" ->
            CASE ~IsBlob(c.previous_entry_mode) /\ ~IsBlob(c.entry_mode) ->
                    [files |-> f, lines |-> l, counted |-> 0]
              [] ~IsBlob(c.previous_entry_mode) /\ IsBlob(c.entry_mode) ->
                    LET r == add_lines(ls, l, c.nl)
                    IN [files |-> [f EXCEPT !.added = @ + 1], lines |-> r[1], counted |-> r[2]]
              [] IsBlob(c.previous_entry_mode) /\ ~IsBlob(c.entry_mode) ->
                    LET r == remove_lines(ls, l, c.pnl)
                    IN [files |-> [f EXCEPT !.removed = @ + 1], lines |-> r[1], counted |-> r[2]]
              [] IsBlob(c.previous_entry_mode) /\ IsBlob(c.entry_mode) ->
                    IF ls /\ c.has_counts
                    THEN [files |-> [f EXCEPT !.modified = @ + 1],
                          lines |-> [added |-> l.added + c.ins, removed |-> l.removed + c.rem],
                          counted |-> c.ins + c.rem]
                    ELSE [files |-> [f EXCEPT !.modified = @ + 1], lines |-> l, counted |-> 0]

\* The body of the for_each_to_obtain_tree callback for one change:
\* returns [files, lines, counted] where counted is added to lines_count.
ApplyChange(c, ls, f, l) ==
    CASE c.kind = "Addition" ->
            IF IsNoTree(c.entry_mode)
            THEN LET r == add_lines(ls, l, c.nl)
                 IN [files |-> [f EXCEPT !.added = @ + 1], lines |-> r[1], counted |-> r[2]]
            ELSE [files |-> f, lines |-> l, counted |-> 0]
      [] c.kind = "Deletion" ->
            IF IsNoTree(c.entry_mode)
            THEN LET r == remove_lines(ls, l, c.nl)
                 IN [files |-> [f EXCEPT !.removed = @ + 1], lines |-> r[1], counted |-> r[2]]
            ELSE [files |-> f, lines |-> l, counted |-> 0]
      [] c.kind = "Modification" ->
            CASE ~IsBlob(c.previous_entry_mode) /\ ~IsBlob(c.entry_mode) ->
                    [files |-> f, lines |-> l, counted |-> 0]
              [] ~IsBlob(c.previous_entry_mode) /\ IsBlob(c.entry_mode) ->
                    LET r == add_lines(ls, l, c.nl)
                    IN [files |-> [f EXCEPT !.added = @ + 1], lines |-> r[1], counted |-> r[2]]
              [] IsBlob(c.previous_entry_mode) /\ ~IsBlob(c.entry_mode) ->
                    LET r == remove_lines(ls, l, c.pnl)
                    IN [files |-> [f EXCEPT !.removed = @ + 1], lines |-> r[1], counted |-> r[2]]
              [] IsBlob(c.previous_entry_mode) /\ IsBlob(c.entry_mode) ->
                    IF ls /\ c.has_counts
                    THEN [files |-> [f EXCEPT !.modified = @ + 1],
                          lines |-> [added |-> l.added + c.ins, removed |-> l.removed + c.rem],
                          counted |-> c.ins + c.rem]
                    ELSE [files |-> [f EXCEPT !.modified = @ + 1], lines |-> l, counted |-> 0]

\* The changes the modelled object store reports to the workers: one of each kind
DiffChanges ==
    { Addition("Blob", 5),
      Deletion("BlobExecutable", 3),
      Modification("Blob", "Blob", 3, 4, 2, 1, TRUE) }

----------------------------------------------------------------------------
\* spawn_tree_delta_threads

Workers == 1..threads

NoItem == [commit_idx |-> 0, parent |-> "none"]

Item(i, p) == [commit_idx |-> i, parent |-> p]

PipeStart(n, ls) ==
    /\ threads = n
    /\ line_stats = ls
    /\ tx_open = TRUE
    /\ channel = <<>>
    /\ submitted = 0
    /\ interrupt = FALSE
    /\ commits = 0
    /\ changes = 0
    /\ lines_count = 0
    /\ pc = [w \in Workers |-> "start"]
    /\ chunk = [w \in Workers |-> <<>>]
    /\ cur = [w \in Workers |-> NoItem]
    /\ files = [w \in Workers |-> ZeroFiles]
    /\ lines = [w \in Workers |-> ZeroLines]
    /\ nchg = [w \in Workers |-> 0]
    /\ out = [w \in Workers |-> <<>>]
    /\ taken = [i \in 1..MaxItems |-> <<>>]
    /\ skipped = <<>>
    /\ failed = {}
    /\ atInterrupt = <<>>

\* the pool as it is when another component is exercised
PipeIdle == PipeStart(1, FALSE)

\* The caller sends one batch through the returned Sender.
Send ==
    /\ tx_open
    /\ \E n \in 1..MaxBatch :
         /\ submitted + n <= MaxItems
         /\ \E ps \in [1..n -> {"none", "some"}] :
              channel' = Append(channel, [k \in 1..n |-> Item(submitted + k, ps[k])])
         /\ submitted' = submitted + n
    /\ UNCHANGED <<besidesPipe, threads, line_stats, tx_open, interrupt, commits, changes,
                   lines_count, pc, chunk, cur, files, lines, nchg, out, taken,
                   skipped, failed, atInterrupt>>

\* The caller drops the Sender.
Close ==
    /\ tx_open
    /\ tx_open' = FALSE
    /\ UNCHANGED <<besidesPipe, threads, line_stats, channel, submitted, interrupt, commits,
                   changes, lines_count, pc, chunk, cur, files, lines, nchg, out,
                   taken, skipped, failed, atInterrupt>>

\* The process-wide interrupt flag is raised.
Interrupt ==
    /\ ~interrupt
    /\ interrupt' = TRUE
    /\ atInterrupt' = [w \in Workers |-> [done |-> Len(out[w]), inflight |-> pc[w] = "diff"]]
    /\ UNCHANGED <<besidesPipe, threads, line_stats, tx_open, channel, submitted, commits,
                   changes, lines_count, pc, chunk, cur, files, lines, nchg, out,
                   taken, skipped, failed>>

\* `continue` / end of the loop body: next item of the batch, or back to the receiver
AfterItem(w) == IF chunk[w] = <<>> THEN "recv" ELSE "item"

\* line_stats.then(|| repo.diff_resource_cache(..)).transpose()? succeeds
CacheSetup(w) ==
    /\ pc[w] = "start"
    /\ pc' = [pc EXCEPT ![w] = "recv"]
    /\ UNCHANGED <<besidesPipe, threads, line_stats, tx_open, channel, submitted, interrupt,
                   commits, changes, lines_count, chunk, cur, files, lines, nchg,
                   out, taken, skipped, failed, atInterrupt>>

\* ... or fails: the closure returns Err before receiving anything
CacheFail(w) ==
    /\ pc[w] = "start"
    /\ line_stats
    /\ pc' = [pc EXCEPT ![w] = "err"]
    /\ UNCHANGED <<besidesPipe, threads, line_stats, tx_open, channel, submitted, interrupt,
                   commits, changes, lines_count, chunk, cur, files, lines, nchg,
                   out, taken, skipped, failed, atInterrupt>>

\* Recv with a receiver that leaves the batch in the channel
Recv_Broadcast(w) ==
    /\ pc[w] = "recv"
    /\ channel # <<>>
    /\ chunk' = [chunk EXCEPT ![w] = Head(channel)]
    /\ pc' = [pc EXCEPT ![w] = "item"]
    /\ UNCHANGED <<besidesPipe, threads, line_stats, tx_open, channel, submitted,
                   interrupt, commits, changes, lines_count, cur, files, lines,
                   nchg, out, taken, skipped, failed, atInterrupt>>

\* `for chunk in rx`: a batch is available
Recv(w) ==
    /\ pc[w] = "recv"
    /\ channel # <<>>
    /\ chunk' = [chunk EXCEPT ![w] = Head(channel)]
    /\ channel' = Tail(channel)
    /\ pc' = [pc EXCEPT ![w] = "item"]
    /\ UNCHANGED <<besidesPipe, threads, line_stats, tx_open, submitted, interrupt, commits,
                   changes, lines_count, cur, files, lines, nchg, out, taken,
                   skipped, failed, atInterrupt>>

\* RecvClosed with a receiver that does not wait for the sender to be dropped
RecvClosed_NoWait(w) ==
    /\ pc[w] = "recv"
    /\ channel = <<>>
    /\ pc' = [pc EXCEPT ![w] = "ok"]
    /\ UNCHANGED <<besidesPipe, threads, line_stats, tx_open, channel, submitted,
                   interrupt, commits, changes, lines_count, chunk, cur, files,
                   lines, nchg, out, taken, skipped, failed, atInterrupt>>

\* `for chunk in rx`: the channel is empty and disconnected, `Ok(out)`
RecvClosed(w) ==
    /\ pc[w] = "recv"
    /\ channel = <<>>
    /\ ~tx_open
    /\ pc' = [pc EXCEPT ![w] = "ok"]
    /\ UNCHANGED <<besidesPipe, threads, line_stats, tx_open, channel, submitted, interrupt,
                   commits, changes, lines_count, chunk, cur, files, lines, nchg,
                   out, taken, skipped, failed, atInterrupt>>

\* NextItem without the fetch_add on the commits counter
NextItem_NoCount(w) ==
    /\ pc[w] = "item"
    /\ chunk[w] # <<>>
    /\ cur' = [cur EXCEPT ![w] = Head(chunk[w])]
    /\ chunk' = [chunk EXCEPT ![w] = Tail(@)]
    /\ taken' = [taken EXCEPT ![Head(chunk[w]).commit_idx] = Append(@, w)]
    /\ pc' = [pc EXCEPT ![w] = "check"]
    /\ UNCHANGED <<besidesPipe, threads, line_stats, tx_open, channel, submitted,
                   interrupt, commits, changes, lines_count, files, lines, nchg,
                   out, skipped, failed, atInterrupt>>

\* `for (commit_idx, parent_commit, commit) in chunk` ... commits.fetch_add(1)
NextItem(w) ==
    /\ pc[w] = "item"
    /\ chunk[w] # <<>>
    /\ cur' = [cur EXCEPT ![w] = Head(chunk[w])]
    /\ chunk' = [chunk EXCEPT ![w] = Tail(@)]
    /\ commits' = commits + 1
    /\ taken' = [taken EXCEPT ![Head(chunk[w]).commit_idx] = Append(@, w)]
    /\ pc' = [pc EXCEPT ![w] = "check"]
    /\ UNCHANGED <<besidesPipe, threads, line_stats, tx_open, channel, submitted, interrupt,
                   changes, lines_count, files, lines, nchg, out, skipped,
                   failed, atInterrupt>>

\* `if gix::interrupt::is_triggered() { return Ok(out); }`
ReturnOnInterrupt(w) ==
    /\ pc[w] = "check"
    /\ interrupt
    /\ pc' = [pc EXCEPT ![w] = "ok"]
    /\ cur' = [cur EXCEPT ![w] = NoItem]
    /\ UNCHANGED <<besidesPipe, threads, line_stats, tx_open, channel, submitted, interrupt,
                   commits, changes, lines_count, chunk, files, lines, nchg,
                   out, taken, skipped, failed, atInterrupt>>

\* parent given but not resolvable to a tree: `None => continue`
SkipMissingParent(w) ==
    /\ pc[w] = "check"
    /\ ~interrupt
    /\ cur[w].parent = "some"
    /\ skipped' = (cur[w].commit_idx :> "parent") @@ skipped
    /\ pc' = [pc EXCEPT ![w] = AfterItem(w)]
    /\ cur' = [cur EXCEPT ![w] = NoItem]
    /\ UNCHANGED <<besidesPipe, threads, line_stats, tx_open, channel, submitted, interrupt,
                   commits, changes, lines_count, chunk, files, lines, nchg,
                   out, taken, failed, atInterrupt>>

\* SkipMissingCommit with `return Ok(out)` in place of `continue`
SkipMissingCommit_Return(w) ==
    /\ pc[w] = "check"
    /\ ~interrupt
    /\ skipped' = (cur[w].commit_idx :> "commit") @@ skipped
    /\ pc' = [pc EXCEPT ![w] = "ok"]
    /\ cur' = [cur EXCEPT ![w] = NoItem]
    /\ UNCHANGED <<besidesPipe, threads, line_stats, tx_open, channel, submitted,
                   interrupt, commits, changes, lines_count, chunk, files, lines,
                   nchg, out, taken, failed, atInterrupt>>

\* commit not resolvable to a tree: `None => continue`
SkipMissingCommit(w) ==
    /\ pc[w] = "check"
    /\ ~interrupt
    /\ skipped' = (cur[w].commit_idx :> "commit") @@ skipped
    /\ pc' = [pc EXCEPT ![w] = AfterItem(w)]
    /\ cur' = [cur EXCEPT ![w] = NoItem]
    /\ UNCHANGED <<besidesPipe, threads, line_stats, tx_open, channel, submitted, interrupt,
                   commits, changes, lines_count, chunk, files, lines, nchg,
                   out, taken, failed, atInterrupt>>

\* BeginDiff without the interrupt check in front of it
BeginDiff_IgnoreFlag(w) ==
    /\ pc[w] = "check"
    /\ files' = [files EXCEPT ![w] = ZeroFiles]
    /\ lines' = [lines EXCEPT ![w] = ZeroLines]
    /\ nchg' = [nchg EXCEPT ![w] = 0]
    /\ pc' = [pc EXCEPT ![w] = "diff"]
    /\ UNCHANGED <<besidesPipe, threads, line_stats, tx_open, channel, submitted,
                   interrupt, commits, changes, lines_count, chunk, cur, out,
                   taken, skipped, failed, atInterrupt>>

\* both trees resolved (the empty tree for a root commit): the diff starts
BeginDiff(w) ==
    /\ pc[w] = "check"
    /\ ~interrupt
    /\ files' = [files EXCEPT ![w] = ZeroFiles]
    /\ lines' = [lines EXCEPT ![w] = ZeroLines]
    /\ nchg' = [nchg EXCEPT ![w] = 0]
    /\ pc' = [pc EXCEPT ![w] = "diff"]
    /\ UNCHANGED <<besidesPipe, threads, line_stats, tx_open, channel, submitted, interrupt,
                   commits, changes, lines_count, chunk, cur, out, taken, skipped,
                   failed, atInterrupt>>

\* one call of the for_each_to_obtain_tree callback
Change(w) ==
    /\ pc[w] = "diff"
    /\ nchg[w] < MaxChanges
    /\ \E c \in DiffChanges :
         LET r == ApplyChange(c, line_stats, files[w], lines[w])
         IN /\ files' = [files EXCEPT ![w] = r.files]
            /\ lines' = [lines EXCEPT ![w] = r.lines]
            /\ lines_count' = lines_count + r.counted
    /\ changes' = changes + 1
    /\ nchg' = [nchg EXCEPT ![w] = @ + 1]
    /\ UNCHANGED <<besidesPipe, threads, line_stats, tx_open, channel, submitted, interrupt,
                   commits, pc, chunk, cur, out, taken, skipped, failed,
                   atInterrupt>>

\* DiffFail that also raises the interrupt flag to stop the other workers
DiffFail_Interrupts(w) ==
    /\ pc[w] = "diff"
    /\ failed' = failed \cup {cur[w].commit_idx}
    /\ pc' = [pc EXCEPT ![w] = "err"]
    /\ interrupt' = TRUE
    /\ atInterrupt' = [v \in Workers |-> [done |-> Len(out[v]), inflight |-> FALSE]]
    /\ files' = [files EXCEPT ![w] = ZeroFiles]
    /\ lines' = [lines EXCEPT ![w] = ZeroLines]
    /\ nchg' = [nchg EXCEPT ![w] = 0]
    /\ UNCHANGED <<besidesPipe, threads, line_stats, tx_open, channel, submitted,
                   commits, changes, lines_count, chunk, cur, out, taken, skipped>>

\* `from.changes()?`, `.for_each_to_obtain_tree(..)?` or the blob diff fails
DiffFail(w) ==
    /\ pc[w] = "diff"
    /\ failed' = failed \cup {cur[w].commit_idx}
    /\ pc' = [pc EXCEPT ![w] = "err"]
    /\ files' = [files EXCEPT ![w] = ZeroFiles]
    /\ lines' = [lines EXCEPT ![w] = ZeroLines]
    /\ nchg' = [nchg EXCEPT ![w] = 0]
    /\ UNCHANGED <<besidesPipe, threads, line_stats, tx_open, channel, submitted, interrupt,
                   commits, changes, lines_count, chunk, cur, out, taken, skipped,
                   atInterrupt>>

\* `out.push((commit_idx, files, lines))`; the locals of the loop body end here
Push(w) ==
    /\ pc[w] = "diff"
    /\ out' = [out EXCEPT ![w] = Append(@, [commit_idx |-> cur[w].commit_idx,
                                            files |-> files[w],
                                            lines |-> lines[w]])]
    /\ pc' = [pc EXCEPT ![w] = AfterItem(w)]
    /\ cur' = [cur EXCEPT ![w] = NoItem]
    /\ files' = [files EXCEPT ![w] = ZeroFiles]
    /\ lines' = [lines EXCEPT ![w] = ZeroLines]
    /\ nchg' = [nchg EXCEPT ![w] = 0]
    /\ UNCHANGED <<besidesPipe, threads, line_stats, tx_open, channel, submitted, interrupt,
                   commits, changes, lines_count, chunk, taken, skipped, failed,
                   atInterrupt>>

Worker(w) ==
    \/ CacheSetup(w)
    \/ CacheFail(w)
    \/ Recv(w)
    \/ RecvClosed(w)
    \/ NextItem(w)
    \/ ReturnOnInterrupt(w)
    \/ SkipMissingParent(w)
    \/ SkipMissingCommit(w)
    \/ BeginDiff(w)
    \/ Change(w)
    \/ DiffFail(w)
    \/ Push(w)

PipeNext ==
    \/ Send
    \/ Close
    \/ Interrupt
    \/ \E w \in Workers : CacheSetup(w)
    \/ \E w \in Workers : CacheFail(w)
    \/ \E w \in Workers : Recv(w)
    \/ \E w \in Workers : RecvClosed(w)
    \/ \E w \in Workers : NextItem(w)
    \/ \E w \in Workers : ReturnOnInterrupt(w)
    \/ \E w \in Workers : SkipMissingParent(w)
    \/ \E w \in Workers : SkipMissingCommit(w)
    \/ \E w \in Workers : BeginDiff(w)
    \/ \E w \in Workers : Change(w)
    \/ \E w \in Workers : DiffFail(w)
    \/ \E w \in Workers : Push(w)

----------------------------------------------------------------------------
\* deduplicate_identities

Names  == {"Ann", "Bob"}
Emails == {"a@x", "b@x", "c@x"}

MaxPersons == 3

\* hours, commits, files and lines of the records handed to deduplicate_identities
Work ==
    { [hours |-> 2, num_commits |-> 1,
       files |-> [added |-> 1, removed |-> 0, modified |-> 0],
       lines |-> [added |-> 5, removed |-> 0]],
      [hours |-> 3, num_commits |-> 2,
       files |-> [added |-> 0, removed |-> 1, modified |-> 1],
       lines |-> [added |-> 1, removed |-> 2]] }

WorkByEmail(n, e, w) ==
    [name |-> n, email |-> e, hours |-> w.hours, num_commits |-> w.num_commits,
     files |-> w.files, lines |-> w.lines]

WorkByEmails == { WorkByEmail(n, e, w) : n \in Names, e \in Emails, w \in Work }

SeqsUpTo(S, n) == UNION { [1..k -> S] : k \in 0..n }

\* FileStats::add, LineStats::add
AddFiles(a, b) ==
    [added |-> a.added + b.added, removed |-> a.removed + b.removed,
     modified |-> a.modified + b.modified]
AddLines(a, b) ==
    [added |-> a.added + b.added, removed |-> a.removed + b.removed]

\* WorkByPerson::merge: counter-wise addition, the receiver keeps its name and email
merge(person, by_email) ==
    [person EXCEPT !.hours = @ + by_email.hours,
                   !.num_commits = @ + by_email.num_commits,
                   !.files = AddFiles(@, by_email.files),
                   !.lines = AddLines(@, by_email.lines)]

\* WorkByPerson::from(&WorkByEmail): a direct copy
into(by_email) == by_email

\* HashMap::insert / VacantEntry::insert
insert(map, k, v) == (k :> v) @@ map

\* DedupBody taking the index of a new record after pushing it
DedupBody_IndexAfterPush(st, p) ==
    IF p.email \in DOMAIN st.email_to_index
    THEN LET idx == st.email_to_index[p.email]
         IN [email_to_index |-> st.email_to_index,
             name_to_index  |-> insert(st.name_to_index, p.name, idx),
             out            |-> IF idx \in DOMAIN st.out
                                THEN [st.out EXCEPT ![idx] = merge(@, p)] ELSE st.out,
             at             |-> idx]
    ELSE IF p.name \in DOMAIN st.name_to_index
    THEN LET idx == st.name_to_index[p.name]
         IN [email_to_index |-> insert(st.email_to_index, p.email, idx),
             name_to_index  |-> st.name_to_index,
             out            |-> IF idx \in DOMAIN st.out
                                THEN [st.out EXCEPT ![idx] = merge(@, p)] ELSE st.out,
             at             |-> idx]
    ELSE LET idx == Len(st.out) + 2
         IN [email_to_index |-> insert(st.email_to_index, p.email, idx),
             name_to_index  |-> insert(st.name_to_index, p.name, idx),
             out            |-> Append(st.out, into(p)),
             at             |-> idx]

\* DedupBody that indexes the email of a record found by its name but does not
\* add the record's counters
DedupBody_NoMergeByName(st, p) ==
    IF p.email \in DOMAIN st.email_to_index
    THEN LET idx == st.email_to_index[p.email]
         IN [email_to_index |-> st.email_to_index,
             name_to_index  |-> insert(st.name_to_index, p.name, idx),
             out            |-> [st.out EXCEPT ![idx] = merge(@, p)],
             at             |-> idx]
    ELSE IF p.name \in DOMAIN st.name_to_index
    THEN LET idx == st.name_to_index[p.name]
         IN [email_to_index |-> insert(st.email_to_index, p.email, idx),
             name_to_index  |-> st.name_to_index,
             out            |-> st.out,
             at             |-> idx]
    ELSE LET idx == Len(st.out) + 1
         IN [email_to_index |-> insert(st.email_to_index, p.email, idx),
             name_to_index  |-> insert(st.name_to_index, p.name, idx),
             out            |-> Append(st.out, into(p)),
             at             |-> idx]

\* DedupBody as a union-find: a record with the email of one output record and
\* the name of another joins the two records into one
DedupBody_Union(st, p) ==
    IF /\ p.email \in DOMAIN st.email_to_index
       /\ p.name \in DOMAIN st.name_to_index
       /\ st.email_to_index[p.email] # st.name_to_index[p.name]
    THEN LET i      == st.email_to_index[p.email]
             j      == st.name_to_index[p.name]
             to     == IF i > j THEN i - 1 ELSE i
             shift(x) == IF x = j THEN to ELSE IF x > j THEN x - 1 ELSE x
             joined == merge(merge(st.out[i], p), st.out[j])
             kept   == [k \in 1..(Len(st.out) - 1) |->
                          IF k = to THEN joined
                          ELSE IF k < j THEN st.out[k] ELSE st.out[k + 1]]
         IN [email_to_index |-> [e \in DOMAIN st.email_to_index |->
                                    shift(st.email_to_index[e])],
             name_to_index  |-> [n \in DOMAIN st.name_to_index |->
                                    shift(st.name_to_index[n])],
             out            |-> kept,
             at             |-> to]
    ELSE IF p.email \in DOMAIN st.email_to_index
    THEN LET idx == st.email_to_index[p.email]
         IN [email_to_index |-> st.email_to_index,
             name_to_index  |-> insert(st.name_to_index, p.name, idx),
             out            |-> [st.out EXCEPT ![idx] = merge(@, p)],
             at             |-> idx]
    ELSE IF p.name \in DOMAIN st.name_to_index
    THEN LET idx == st.name_to_index[p.name]
         IN [email_to_index |-> insert(st.email_to_index, p.email, idx),
             name_to_index  |-> st.name_to_index,
             out            |-> [st.out EXCEPT ![idx] = merge(@, p)],
             at             |-> idx]
    ELSE LET idx == Len(st.out) + 1
         IN [email_to_index |-> insert(st.email_to_index, p.email, idx),
             name_to_index  |-> insert(st.name_to_index, p.name, idx),
             out            |-> Append(st.out, into(p)),
             at             |-> idx]

\* DedupBody merging a record found by its name into the last output record
DedupBody_MergeIntoLast(st, p) ==
    IF p.email \in DOMAIN st.email_to_index
    THEN LET idx == st.email_to_index[p.email]
         IN [email_to_index |-> st.email_to_index,
             name_to_index  |-> insert(st.name_to_index, p.name, idx),
             out            |-> [st.out EXCEPT ![idx] = merge(@, p)],
             at             |-> idx]
    ELSE IF p.name \in DOMAIN st.name_to_index
    THEN LET idx == Len(st.out)
         IN [email_to_index |-> insert(st.email_to_index, p.email, idx),
             name_to_index  |-> st.name_to_index,
             out            |-> [st.out EXCEPT ![idx] = merge(@, p)],
             at             |-> idx]
    ELSE LET idx == Len(st.out) + 1
         IN [email_to_index |-> insert(st.email_to_index, p.email, idx),
             name_to_index  |-> insert(st.name_to_index, p.name, idx),
             out            |-> Append(st.out, into(p)),
             at             |-> idx]

\* DedupBody that does not index the name of a record found by its email
DedupBody_NoNameIndex(st, p) ==
    IF p.email \in DOMAIN st.email_to_index
    THEN LET idx == st.email_to_index[p.email]
         IN [email_to_index |-> st.email_to_index,
             name_to_index  |-> st.name_to_index,
             out            |-> [st.out EXCEPT ![idx] = merge(@, p)],
             at             |-> idx]
    ELSE IF p.name \in DOMAIN st.name_to_index
    THEN LET idx == st.name_to_index[p.name]
         IN [email_to_index |-> insert(st.email_to_index, p.email, idx),
             name_to_index  |-> st.name_to_index,
             out            |-> [st.out EXCEPT ![idx] = merge(@, p)],
             at             |-> idx]
    ELSE LET idx == Len(st.out) + 1
         IN [email_to_index |-> insert(st.email_to_index, p.email, idx),
             name_to_index  |-> insert(st.name_to_index, p.name, idx),
             out            |-> Append(st.out, into(p)),
             at             |-> idx]

\* One iteration of `for person_by_email in persons`.  Output indexes are
\* 1-based here: `out.len()` of the source is Len(out) + 1.  `at` is the
\* output index the record went to.
DedupBody(st, p) ==
    IF p.email \in DOMAIN st.email_to_index
    THEN LET idx == st.email_to_index[p.email]
         IN [email_to_index |-> st.email_to_index,
             name_to_index  |-> insert(st.name_to_index, p.name, idx),
             out            |-> [st.out EXCEPT ![idx] = merge(@, p)],
             at             |-> idx]
    ELSE IF p.name \in DOMAIN st.name_to_index
    THEN LET idx == st.name_to_index[p.name]
         IN [email_to_index |-> insert(st.email_to_index, p.email, idx),
             name_to_index  |-> st.name_to_index,
             out            |-> [st.out EXCEPT ![idx] = merge(@, p)],
             at             |-> idx]
    ELSE LET idx == Len(st.out) + 1
         IN [email_to_index |-> insert(st.email_to_index, p.email, idx),
             name_to_index  |-> insert(st.name_to_index, p.name, idx),
             out            |-> Append(st.out, into(p)),
             at             |-> idx]

DedupEmpty == [email_to_index |-> <<>>, name_to_index |-> <<>>, out |-> <<>>, at |-> 0]

\* deduplicate_identities as a function of its argument
RECURSIVE DedupFold(_, _)
DedupFold(ps, n) == IF n = 0 THEN DedupEmpty ELSE DedupBody(DedupFold(ps, n - 1), ps[n])

deduplicate_identities(ps) == DedupFold(ps, Len(ps)).out

DedupStart(ps) ==
    /\ persons = ps
    /\ pos = 0
    /\ email_to_index = <<>>
    /\ name_to_index = <<>>
    /\ out_persons = <<>>
    /\ group = <<>>

DedupIdle == DedupStart(<<>>)

DedupState == [email_to_index |-> email_to_index, name_to_index |-> name_to_index,
               out |-> out_persons, at |-> 0]

\* the loop consumes persons[pos + 1]
DedupAdvance ==
    LET r == DedupBody(DedupState, persons[pos + 1])
    IN /\ email_to_index' = r.email_to_index
       /\ name_to_index' = r.name_to_index
       /\ out_persons' = r.out
       /\ group' = Append(group, r.at)
       /\ pos' = pos + 1
       /\ UNCHANGED <<besidesDedup, persons>>

\* Entry::Occupied(email_entry)
MergeByEmail ==
    /\ pos < Len(persons)
    /\ persons[pos + 1].email \in DOMAIN email_to_index
    /\ DedupAdvance

\* Entry::Vacant(email_entry), Entry::Occupied(name_entry)
MergeByName ==
    /\ pos < Len(persons)
    /\ persons[pos + 1].email \notin DOMAIN email_to_index
    /\ persons[pos + 1].name \in DOMAIN name_to_index
    /\ DedupAdvance

\* Entry::Vacant(email_entry), Entry::Vacant(name_entry)
Promote ==
    /\ pos < Len(persons)
    /\ persons[pos + 1].email \notin DOMAIN email_to_index
    /\ persons[pos + 1].name \notin DOMAIN name_to_index
    /\ DedupAdvance

DedupNext ==
    \/ MergeByEmail
    \/ MergeByName
    \/ Promote

\* `out` is returned
DedupReturned == pos = Len(persons)

----------------------------------------------------------------------------
\* gix_mailmap::Snapshot, as exercised by tests/snapshot/mod.rs

MaxEntries == 2

\* Option<T>
None    == <<>>
Some(x) == <<x>>

\* the strings of the model and their ASCII-lowercase form
LowerCase ==
    ("Old-Email" :> "old-email") @@ ("Old-Name" :> "old-name")

Lower(str) == IF str \in DOMAIN LowerCase THEN LowerCase[str] ELSE str

OldEmails == {"old-email", "Old-Email", "other-email"}
OldNames  == {"old-name", "Old-Name"}
NewNames  == {"new-name", "other-new-name"}
NewEmails == {"other-new-email"}
SigNames  == {"old-name", "Old-Name", "replace-by-email"}

\* fn signature(name, email) of the tests
signature(name, email) == [name |-> name, email |-> email, time |-> 42]

Signatures == { signature(n, e) : n \in SigNames, e \in OldEmails }

\* gix_mailmap::Entry and the constructors the tests use
Entry(new_name, new_email, old_name, old_email) ==
    [new_name |-> new_name, new_email |-> new_email,
     old_name |-> old_name, old_email |-> old_email]

change_name_by_email(new_name, old_email) ==
    Entry(Some(new_name), None, None, old_email)
change_email_by_email(new_email, old_email) ==
    Entry(None, Some(new_email), None, old_email)
change_name_and_email_by_email(new_name, new_email, old_email) ==
    Entry(Some(new_name), Some(new_email), None, old_email)
change_name_by_name_and_email(new_name, old_name, old_email) ==
    Entry(Some(new_name), None, Some(old_name), old_email)
change_email_by_name_and_email(new_email, old_name, old_email) ==
    Entry(None, Some(new_email), Some(old_name), old_email)
change_name_and_email_by_name_and_email(new_name, new_email, old_name, old_email) ==
    Entry(Some(new_name), Some(new_email), Some(old_name), old_email)

Entries ==
    UNION { { change_name_by_email(nn, oe),
              change_email_by_email(ne, oe),
              change_name_and_email_by_email(nn, ne, oe),
              change_name_by_name_and_email(nn, on, oe),
              change_email_by_name_and_email(ne, on, oe),
              change_name_and_email_by_name_and_email(nn, ne, on, oe) } :
            nn \in NewNames, ne \in NewEmails, on \in OldNames, oe \in OldEmails }

\* the entries of non_name_and_name_mappings_will_not_clash
ClashEntries ==
    << change_name_by_email("new-name", "old-email"),
       change_name_and_email_by_name_and_email("other-new-name", "other-new-email",
                                               "old-name", "old-email") >>

\* A bucket of the table: the email as first stored, the replacement of the
\* email-only rule (both None when there is none), and the name-specific rules
\* by normalized name.
EmptyBucket(old_email) ==
    [old_email |-> old_email, new_name |-> None, new_email |-> None,
     entries_by_old_name |-> <<>>]

\* a name-specific rule of a bucket: the name as first stored and the replacement
NameEntry(e) ==
    [old_name |-> e.old_name[1], new_name |-> e.new_name, new_email |-> e.new_email]

\* merge_entry keeping the replacement already stored for the match key
merge_entry_KeepFirst(snap, e) ==
    LET key == Lower(e.old_email)
        b   == IF key \in DOMAIN snap THEN snap[key] ELSE EmptyBucket(e.old_email)
        n   == Lower(e.old_name[1])
        b2  == IF e.old_name = None
               THEN IF b.new_name # None \/ b.new_email # None
                    THEN b
                    ELSE [b EXCEPT !.new_name = e.new_name, !.new_email = e.new_email]
               ELSE IF n \in DOMAIN b.entries_by_old_name
                    THEN b
                    ELSE [b EXCEPT !.entries_by_old_name = (n :> NameEntry(e)) @@ @]
    IN (key :> b2) @@ snap

\* inserting one rule: the replacement stored for its exact match key is overwritten
merge_entry(snap, e) ==
    LET key == Lower(e.old_email)
        b   == IF key \in DOMAIN snap THEN snap[key] ELSE EmptyBucket(e.old_email)
        n   == Lower(e.old_name[1])
        b2  == IF e.old_name = None
               THEN [b EXCEPT !.new_name = e.new_name, !.new_email = e.new_email]
               ELSE IF n \in DOMAIN b.entries_by_old_name
                    THEN [b EXCEPT !.entries_by_old_name[n] =
                             [@ EXCEPT !.new_name = e.new_name, !.new_email = e.new_email]]
                    ELSE [b EXCEPT !.entries_by_old_name = (n :> NameEntry(e)) @@ @]
    IN (key :> b2) @@ snap

\* the normalized emails and names of the model in byte order
EmailOrder == <<"old-email", "other-email">>
NameOrder  == <<"old-name">>

\* the effective rules of one bucket: the email-only rule, if any, then the
\* name-specific rules by normalized name
BucketEntries(b) ==
    LET head  == IF b.new_name # None \/ b.new_email # None
                 THEN <<Entry(b.new_name, b.new_email, None, b.old_email)>>
                 ELSE <<>>
        names == SelectSeq(NameOrder, LAMBDA n : n \in DOMAIN b.entries_by_old_name)
    IN head \o [i \in 1..Len(names) |->
                  LET r == b.entries_by_old_name[names[i]]
                  IN Entry(r.new_name, r.new_email, Some(r.old_name), b.old_email)]

RECURSIVE EntriesFrom(_, _)
EntriesFrom(snap, i) ==
    IF i > Len(EmailOrder) THEN <<>>
    ELSE (IF EmailOrder[i] \in DOMAIN snap THEN BucketEntries(snap[EmailOrder[i]]) ELSE <<>>)
         \o EntriesFrom(snap, i + 1)

\* Snapshot::entries: the effective rules grouped by normalized email
entries(snap) == EntriesFrom(snap, 1)

\* substitute leaving the email as the input wrote it where the rule supplies none
substitute_InputEmail(rule, bucket, sig) ==
    [sig EXCEPT !.name  = IF rule.new_name = None THEN sig.name ELSE rule.new_name[1],
                !.email = IF rule.new_email = None THEN sig.email
                          ELSE rule.new_email[1]]

\* substitute putting the name stored with the rule where the rule supplies none
substitute_StoredName(rule, bucket, sig) ==
    [sig EXCEPT !.name  = IF rule.new_name # None THEN rule.new_name[1]
                          ELSE IF "old_name" \in DOMAIN rule THEN rule.old_name
                          ELSE sig.name,
                !.email = IF rule.new_email = None THEN bucket.old_email
                          ELSE rule.new_email[1]]

\* the substitution of a matching rule: the rule's new name, else the input's
\* name verbatim; the rule's new email, else the canonical email of the bucket
substitute(rule, bucket, sig) ==
    [sig EXCEPT !.name  = IF rule.new_name = None THEN sig.name ELSE rule.new_name[1],
                !.email = IF rule.new_email = None THEN bucket.old_email
                          ELSE rule.new_email[1]]

\* try_resolve with the email-only rule consulted before the name-specific ones
try_resolve_DefaultFirst(snap, sig) ==
    LET key == Lower(sig.email)
    IN IF key \notin DOMAIN snap THEN None
       ELSE LET b == snap[key]
                n == Lower(sig.name)
            IN IF b.new_name # None \/ b.new_email # None
               THEN Some(substitute(b, b, sig))
               ELSE IF n \in DOMAIN b.entries_by_old_name
               THEN Some(substitute(b.entries_by_old_name[n], b, sig))
               ELSE None

\* Snapshot::try_resolve
try_resolve(snap, sig) ==
    LET key == Lower(sig.email)
    IN IF key \notin DOMAIN snap THEN None
       ELSE LET b == snap[key]
                n == Lower(sig.name)
            IN IF n \in DOMAIN b.entries_by_old_name
               THEN Some(substitute(b.entries_by_old_name[n], b, sig))
               ELSE IF b.new_name # None \/ b.new_email # None
               THEN Some(substitute(b, b, sig))
               ELSE None

\* resolve whose fallback carries the normalized email
resolve_NormalizedFallback(snap, sig) ==
    LET r == try_resolve(snap, sig)
    IN IF r = None THEN [sig EXCEPT !.email = Lower(@)] ELSE r[1]

\* Snapshot::resolve: try_resolve, else a verbatim copy of the input
resolve(snap, sig) ==
    LET r == try_resolve(snap, sig)
    IN IF r = None THEN sig ELSE r[1]

MapStart ==
    /\ snapshot = <<>>
    /\ inserted = <<>>
    /\ query = None
    /\ answer = None
    /\ resolved = None

\* one entry is merged into the snapshot (Snapshot::new merges them in order)
Insert ==
    /\ query = None
    /\ Len(inserted) < MaxEntries
    /\ \E e \in Entries :
         /\ snapshot' = merge_entry(snapshot, e)
         /\ inserted' = Append(inserted, e)
    /\ UNCHANGED <<besidesMap, query, answer, resolved>>

\* a signature is resolved against the snapshot
Resolve ==
    /\ query = None
    /\ \E sig \in Signatures :
         /\ query' = Some(sig)
         /\ answer' = try_resolve(snapshot, sig)
         /\ resolved' = Some(resolve(snapshot, sig))
    /\ UNCHANGED <<besidesMap, snapshot, inserted>>

MapNext ==
    \/ Insert
    \/ Resolve

----------------------------------------------------------------------------
\* estimate_hours

MaxCommits == 3

MINUTES_PER_HOUR == 60
MAX_COMMIT_DIFFERENCE_IN_MINUTES == 2 * MINUTES_PER_HOUR
FIRST_COMMIT_ADDITION_IN_MINUTES == 2 * MINUTES_PER_HOUR

\* SecondsSinceUnixEpoch is a signed integer (i64); the model narrows it to
\* 31 bits so that differences stay within the integers of the checker
MinSeconds == -(2^30)
MaxSeconds == 2^30 - 1

\* i64::saturating_sub: the difference, clamped to the range of the type
saturating_sub(a, b) ==
    LET d == a - b
    IN IF d > MaxSeconds THEN MaxSeconds
       ELSE IF d < MinSeconds THEN MinSeconds
       ELSE d

\* The f32 quantities are kept exact: a duration in minutes as a number of
\* 1/60 minutes, hours as a number of 1/3600 hours (ticks).
TicksPerHour == MINUTES_PER_HOUR * MINUTES_PER_HOUR

\* the timestamps of the model
Seconds == {MinSeconds, 0, 600, 7799, 7800}

SignatureRef(t) == [name |-> "Ann", email |-> "a@x", seconds |-> t]

\* the element (CommitIdx, SignatureRef) of `commits`
Commit(i, t) == [idx |-> i, sig |-> SignatureRef(t)]

Distinct(s) == \A i, j \in DOMAIN s : i # j => s[i].idx # s[j].idx

\* one author's commits: any order of timestamps, distinct commit indexes
CommitLists ==
    { cs \in SeqsUpTo({Commit(i, t) : i \in 1..MaxCommits, t \in Seconds}, MaxCommits) :
        Distinct(cs) }

\* the element (CommitIdx, FileStats, LineStats) of `stats` for commit i
CommitStat(i) ==
    [idx |-> i,
     files |-> [added |-> 2^(i - 1), removed |-> i, modified |-> 1],
     lines |-> [added |-> 5 * i, removed |-> 2^(i - 1)]]

\* the stats arrays: sorted by commit index, no index twice
StatsArrays ==
    { [k \in DOMAIN ix |-> CommitStat(ix[k])] :
        ix \in { s \in SeqsUpTo(1..MaxCommits, MaxCommits) :
                    \A i, j \in DOMAIN s : i < j => s[i] < s[j] } }

\* GapHours without the cap on long gaps
GapHours_Uncapped(prev, next) == saturating_sub(next.seconds, prev.seconds)

\* the body of `for next in commits`: what one adjacent pair adds to `hours`,
\* in ticks; prev is `cur` of the source.  change_in_minutes is kept in 1/60
\* minutes and compared with MAX_COMMIT_DIFFERENCE_IN_MINUTES in that unit.
GapHours(prev, next) ==
    LET change_in_minutes == saturating_sub(next.seconds, prev.seconds)
    IN IF change_in_minutes < MAX_COMMIT_DIFFERENCE_IN_MINUTES * MINUTES_PER_HOUR
       THEN change_in_minutes
       ELSE FIRST_COMMIT_ADDITION_IN_MINUTES * MINUTES_PER_HOUR

\* commits.iter().map(|t| &t.1).rev()
Rev(cs) == [i \in DOMAIN cs |-> cs[Len(cs) + 1 - i].sig]

\* `hours_for_commits`: the walk from the oldest (last) to the newest (first)
RECURSIVE WalkGaps(_, _)
WalkGaps(r, n) ==
    IF n <= 1 THEN 0 ELSE WalkGaps(r, n - 1) + GapHours(r[n - 1], r[n])

hours_for_commits(cs) == WalkGaps(Rev(cs), Len(cs))

\* binary search that never looks at the last element of the slice
RECURSIVE binary_search_by_ShortRight(_, _, _, _)
binary_search_by_ShortRight(s, id, left, right) ==
    LET r == IF right = Len(s) /\ right > 0 THEN right - 1 ELSE right
    IN IF left >= r THEN [ok |-> FALSE, idx |-> left]
       ELSE LET mid == left + (r - left) \div 2
            IN IF s[mid + 1].idx = id THEN [ok |-> TRUE, idx |-> mid + 1]
               ELSE IF s[mid + 1].idx < id
               THEN binary_search_by_ShortRight(s, id, mid + 1, r)
               ELSE binary_search_by_ShortRight(s, id, left, mid)

\* slice::binary_search_by(|t| t.0.cmp(id)) over s[left+1 .. right];
\* Ok(idx) is given as a 1-based index
RECURSIVE binary_search_by(_, _, _, _)
binary_search_by(s, id, left, right) ==
    IF left >= right THEN [ok |-> FALSE, idx |-> left]
    ELSE LET mid == left + (right - left) \div 2
         IN IF s[mid + 1].idx = id THEN [ok |-> TRUE, idx |-> mid + 1]
            ELSE IF s[mid + 1].idx < id
            THEN binary_search_by(s, id, mid + 1, right)
            ELSE binary_search_by(s, id, left, mid)

\* the fold over the commit indexes
RECURSIVE FoldStats(_, _, _)
FoldStats(cs, st, n) ==
    IF n = 0 THEN [files |-> ZeroFiles, lines |-> ZeroLines]
    ELSE LET acc == FoldStats(cs, st, n - 1)
             r   == binary_search_by(st, cs[n].idx, 0, Len(st))
         IN IF r.ok
            THEN [files |-> AddFiles(acc.files, st[r.idx].files),
                  lines |-> AddLines(acc.lines, st[r.idx].lines)]
            ELSE acc

\* estimate_hours for a non-empty `commits`; hours in ticks
estimate_hours(cs, st) ==
    LET author == cs[1].sig
        totals == IF st # <<>> THEN FoldStats(cs, st, Len(cs))
                  ELSE [files |-> ZeroFiles, lines |-> ZeroLines]
    IN [name |-> author.name,
        email |-> author.email,
        hours |-> FIRST_COMMIT_ADDITION_IN_MINUTES * MINUTES_PER_HOUR + hours_for_commits(cs),
        num_commits |-> Len(cs),
        files |-> totals.files,
        lines |-> totals.lines]

EstStart(cs, st) ==
    /\ author_commits = cs
    /\ stats = st
    /\ est_pc = "call"
    /\ work_by_email = None

EstIdle == EstStart(<<>>, <<>>)

\* assert!(!commits.is_empty()) fails
AssertFails ==
    /\ est_pc = "call"
    /\ author_commits = <<>>
    /\ est_pc' = "panicked"
    /\ UNCHANGED <<besidesEst, author_commits, stats, work_by_email>>

\* the call returns its WorkByEmail
Estimate ==
    /\ est_pc = "call"
    /\ author_commits # <<>>
    /\ est_pc' = "returned"
    /\ work_by_email' = Some(estimate_hours(author_commits, stats))
    /\ UNCHANGED <<besidesEst, author_commits, stats>>

EstNext ==
    \/ AssertFails
    \/ Estimate

----------------------------------------------------------------------------
\* The callback of for_each_to_obtain_tree over the changes of one commit,
\* for every kind of entry

MaxDiff == 2

\* the changes a tree diff can report: every entry mode added, deleted, and
\* turned into every entry mode; a blob-to-blob change without line counts
AllChanges ==
    { Addition(m, 5) : m \in EntryKinds }
    \cup { Deletion(m, 3) : m \in EntryKinds }
    \cup { Modification(p, m, 3, 4, 2, 1, TRUE) : p \in EntryKinds, m \in EntryKinds }
    \cup { Modification("Blob", "BlobExecutable", 3, 4, 2, 1, FALSE) }

DiffStart(cs, ls) ==
    /\ diff = cs
    /\ diff_pos = 0
    /\ diff_line_stats = ls
    /\ diff_files = ZeroFiles
    /\ diff_lines = ZeroLines

DiffIdle == DiffStart(<<>>, FALSE)

\* the callback runs for diff[diff_pos + 1]
Callback ==
    LET r == ApplyChange(diff[diff_pos + 1], diff_line_stats, diff_files, diff_lines)
    IN /\ diff_files' = r.files
       /\ diff_lines' = r.lines
       /\ diff_pos' = diff_pos + 1
       /\ UNCHANGED <<besidesDiff, diff, diff_line_stats>>

\* Addition { entry_mode, id, .. }
OnAddition ==
    /\ diff_pos < Len(diff)
    /\ diff[diff_pos + 1].kind = "Addition"
    /\ Callback

\* Deletion { entry_mode, id, .. }
OnDeletion ==
    /\ diff_pos < Len(diff)
    /\ diff[diff_pos + 1].kind = "Deletion"
    /\ Callback

\* Modification { entry_mode, previous_entry_mode, id, previous_id, .. }
OnModification ==
    /\ diff_pos < Len(diff)
    /\ diff[diff_pos + 1].kind = "Modification"
    /\ Callback

DiffNext ==
    \/ OnAddition
    \/ OnDeletion
    \/ OnModification

----------------------------------------------------------------------------
\* Specifications

PipeInit ==
    /\ \E n \in 1..MaxThreads : \E ls \in BOOLEAN : PipeStart(n, ls)
    /\ DedupIdle
    /\ MapStart
    /\ EstIdle
    /\ DiffIdle

PipeSpec == PipeInit /\ [][PipeNext]_vars

\* Threads are scheduled by the operating system: a worker that can take a
\* step eventually takes one.  Nothing obliges the caller to send or close.
PipeFairSpec ==
    /\ PipeInit
    /\ [][PipeNext]_vars
    /\ \A w \in 1..MaxThreads : WF_vars(w \in Workers /\ Worker(w))

DedupInit ==
    /\ PipeIdle
    /\ MapStart
    /\ EstIdle
    /\ DiffIdle
    /\ \E ps \in SeqsUpTo(WorkByEmails, MaxPersons) : DedupStart(ps)

DedupSpec == DedupInit /\ [][DedupNext]_vars

MapInit ==
    /\ PipeIdle
    /\ DedupIdle
    /\ MapStart
    /\ EstIdle
    /\ DiffIdle

MapSpec == MapInit /\ [][MapNext]_vars

EstInit ==
    /\ PipeIdle
    /\ DedupIdle
    /\ MapStart
    /\ DiffIdle
    /\ \E cs \in CommitLists : \E st \in StatsArrays : EstStart(cs, st)

EstSpec == EstInit /\ [][EstNext]_vars

DiffInit ==
    /\ PipeIdle
    /\ DedupIdle
    /\ MapStart
    /\ EstIdle
    /\ \E cs \in SeqsUpTo(AllChanges, MaxDiff) : \E ls \in BOOLEAN : DiffStart(cs, ls)

DiffSpec == DiffInit /\ [][DiffNext]_vars

----------------------------------------------------------------------------
\* Derived notions used by the properties of the worker pool

RECURSIVE SumOver(_, _)
SumOver(f, n) == IF n = 0 THEN 0 ELSE f[n] + SumOver(f, n - 1)

\* number of CommitStats carrying commit_idx i over all workers' lists
Occurrences(i) ==
    SumOver([w \in Workers |->
                Cardinality({k \in 1..Len(out[w]) : out[w][k].commit_idx = i})],
            threads)

\* total number of CommitStats accumulated by all workers
TotalEntries == SumOver([w \in Workers |-> Len(out[w])], threads)

Returned(w) == pc[w] \in {"ok", "err"}
AllJoined   == \A w \in Workers : Returned(w)
NoError     == \A w \in Workers : pc[w] # "err"

\* commit_idx of the items an erring worker left behind in its batch
Dropped == UNION { {chunk[w][k].commit_idx : k \in 1..Len(chunk[w])} :
                   w \in {v \in Workers : pc[v] = "err"} }

----------------------------------------------------------------------------
\* C1: every submitted item is taken from the channel by exactly one worker:
\* no item is taken twice, no commit_idx occurs in more than one CommitStat
\* over all workers, and when the channel is closed, all workers are joined
\* and there was no interrupt, no missing object and no failure, every
\* submitted item has exactly one CommitStat.
C1_ExactlyOnce ==
    /\ \A i \in 1..MaxItems : Len(taken[i]) <= 1
    /\ \A i \in 1..MaxItems : Occurrences(i) <= 1
    /\ (~tx_open /\ AllJoined /\ ~interrupt /\ DOMAIN skipped = {} /\ failed = {} /\ NoError)
          => \A i \in 1..submitted : Len(taken[i]) = 1 /\ Occurrences(i) = 1

C1_Witness ==
    /\ threads = 2
    /\ ~tx_open /\ AllJoined /\ ~interrupt /\ DOMAIN skipped = {} /\ failed = {} /\ NoError
    /\ submitted = MaxItems
    /\ \A w \in Workers : out[w] # <<>>

----------------------------------------------------------------------------
\* what a worker may still push once the flag is up: the item it was diffing
AfterFlag(w) == atInterrupt[w].done + (IF atInterrupt[w].inflight THEN 1 ELSE 0)

\* C2: the flag is checked before every item, also in the middle of a batch;
\* a worker that finds it set returns its list as a success, appends nothing
\* and takes nothing more.  A worker that had pushed k items when the flag
\* was raised returns exactly k entries when the flag was raised between two
\* items, and never more than k + 1: the one item whose diff was under way
\* when the flag was raised is completed.  In particular a single worker
\* without skipped items, interrupted after k items, returns k entries.
C2_PartialResults ==
    /\ [](\A w \in Workers :
            /\ interrupt => Len(out[w]) <= AfterFlag(w)
            /\ (interrupt /\ pc[w] = "ok") => Len(out[w]) = AfterFlag(w))
    /\ []((threads = 1 /\ interrupt /\ DOMAIN skipped = {} /\ pc[1] = "ok"
             /\ ~atInterrupt[1].inflight)
            => (Len(out[1]) = atInterrupt[1].done /\ commits <= atInterrupt[1].done + 1))
    /\ [][\A w \in Workers :
            (pc[w] = "check" /\ interrupt /\ pc'[w] # pc[w])
               => (pc'[w] = "ok" /\ out'[w] = out[w] /\ taken' = taken)]_vars
    /\ [][\A w \in Workers :
            (interrupt /\ pc[w] # "diff") => out'[w] = out[w]]_vars
    /\ [][\A w \in Workers :
            pc[w] = "ok" => (pc'[w] = "ok" /\ out'[w] = out[w] /\ chunk'[w] = chunk[w]
                             /\ \A i \in 1..MaxItems : taken'[i] # Append(taken[i], w))]_vars

\* one worker, the flag raised between two items of a batch after one push,
\* the rest of the batch left unprocessed
C2_Witness ==
    /\ threads = 1
    /\ interrupt
    /\ pc[1] = "ok"
    /\ chunk[1] # <<>>
    /\ DOMAIN skipped = {}
    /\ ~atInterrupt[1].inflight
    /\ atInterrupt[1].done = 1
    /\ Len(out[1]) = 1

----------------------------------------------------------------------------
\* C3: an item whose parent (when given) or whose commit cannot be resolved
\* produces no CommitStat and no error; the worker goes on with the next item
\* and every other item still gets its CommitStat; an item without parent id
\* is never skipped on account of its parent.
C3_SkipMissing ==
    /\ [](\A i \in DOMAIN skipped : Occurrences(i) = 0 /\ i \notin failed)
    /\ [](\A w \in Workers :
            pc[w] = "err" => \/ cur[w].commit_idx \in failed
                             \/ (line_stats /\ cur[w] = NoItem /\ out[w] = <<>>))
    /\ []((~tx_open /\ AllJoined /\ ~interrupt /\ NoError)
            => \A i \in 1..submitted :
                 Occurrences(i) = IF i \in DOMAIN skipped THEN 0 ELSE 1)
    /\ [][\A i \in (DOMAIN skipped') \ (DOMAIN skipped) :
            \E w \in Workers :
               /\ pc[w] = "check" /\ cur[w].commit_idx = i
               /\ skipped'[i] = "parent" => cur[w].parent = "some"
               /\ pc'[w] = (IF chunk[w] = <<>> THEN "recv" ELSE "item")
               /\ out' = out /\ chunk' = chunk /\ channel' = channel]_vars

\* one worker skipped an item for its parent and one for its commit, a later
\* item was pushed by a worker that had skipped one, and nobody failed
C3_Witness ==
    /\ ~tx_open /\ AllJoined /\ ~interrupt /\ NoError
    /\ submitted = MaxItems
    /\ \E i, j \in DOMAIN skipped : skipped[i] = "parent" /\ skipped[j] = "commit"
    /\ \E i \in DOMAIN skipped : \E j \in 1..submitted :
          j > i /\ taken[j] = taken[i] /\ Occurrences(j) = 1

----------------------------------------------------------------------------
\* C4 (as claimed): when the diff fails in one worker and another worker
\* returns successfully, all remaining items are still processed once the
\* channel is closed.
C4_AllRemainingProcessed ==
    (~tx_open /\ AllJoined /\ ~interrupt /\ failed # {} /\ \E w \in Workers : pc[w] = "ok")
        => \A i \in 1..submitted :
              i \in failed \/ i \in DOMAIN skipped \/ Occurrences(i) = 1

\* C4 (amended): a worker whose diff fails returns an error and consumes
\* nothing more; the rest of the batch it had taken is dropped with it.  The
\* failure touches no other worker, nor the channel: the others keep
\* consuming and return successfully, so that, when at least one worker
\* returns successfully without interrupt, every submitted item has been
\* processed except those left in the batches of the failed workers.
C4_OthersUnaffected ==
    /\ []((~tx_open /\ AllJoined /\ ~interrupt /\ \E w \in Workers : pc[w] = "ok")
            => /\ channel = <<>>
               /\ \A i \in 1..submitted :
                     \/ i \in failed
                     \/ i \in DOMAIN skipped
                     \/ Occurrences(i) = 1
                     \/ i \in Dropped)
    /\ [](\A i \in failed : Occurrences(i) = 0 /\ \E w \in Workers : pc[w] = "err" /\ cur[w].commit_idx = i)
    /\ [][\A w \in Workers :
            pc[w] = "err" => (pc'[w] = "err" /\ out'[w] = out[w] /\ chunk'[w] = chunk[w]
                              /\ cur'[w] = cur[w])]_vars
    /\ [][\A w \in Workers :
            (pc[w] # "err" /\ pc'[w] = "err")
               => /\ channel' = channel /\ interrupt' = interrupt /\ tx_open' = tx_open
                  /\ \A v \in Workers \ {w} :
                        pc'[v] = pc[v] /\ out'[v] = out[v] /\ chunk'[v] = chunk[v]]_vars

\* the diff failed in one worker in the middle of a batch, the other worker
\* went on and returned a non-empty list
C4_Witness ==
    /\ threads = 2
    /\ ~tx_open /\ AllJoined /\ ~interrupt
    /\ failed # {}
    /\ Dropped # {}
    /\ \E w \in Workers : pc[w] = "ok" /\ out[w] # <<>>

----------------------------------------------------------------------------
\* C5: once the sender is dropped every worker eventually returns, whatever
\* was skipped, interrupted or failed; and a worker that returns successfully
\* without interrupt does so only when the channel is closed and drained (and
\* its own batch is used up).
C5_Termination ==
    /\ (~tx_open) ~> AllJoined
    /\ [](\A w \in Workers :
            (pc[w] = "ok" /\ ~interrupt)
               => (~tx_open /\ channel = <<>> /\ chunk[w] = <<>>))

C5_Witness ==
    /\ threads = 2
    /\ ~tx_open /\ AllJoined /\ ~interrupt
    /\ submitted = MaxItems
    /\ \A w \in Workers : pc[w] = "ok" /\ out[w] # <<>>
    /\ DOMAIN skipped # {}

----------------------------------------------------------------------------
\* C6: the three shared counters never decrease, and the commits counter is
\* always at least the number of CommitStats accumulated by all workers and
\* at most the number of submitted items.
C6_Counters ==
    /\ [][/\ commits' >= commits
          /\ changes' >= changes
          /\ lines_count' >= lines_count]_vars
    /\ [](TotalEntries <= commits /\ commits <= submitted)

\* both workers have pushed, an item was counted without producing an entry
C6_Witness ==
    /\ threads = 2
    /\ \A w \in Workers : out[w] # <<>>
    /\ TotalEntries < commits
    /\ changes > 0
    /\ lines_count > 0

----------------------------------------------------------------------------
\* Derived notions used by the properties of deduplicate_identities

Counters(r) == [num_commits |-> r.num_commits, files |-> r.files, lines |-> r.lines]

\* the multiset of the counters of a list of records
BagOfCounters(rs) ==
    [c \in {Counters(rs[i]) : i \in DOMAIN rs} |->
        Cardinality({i \in DOMAIN rs : Counters(rs[i]) = c})]

\* all orderings of a list
Orderings(ps) == { [i \in DOMAIN ps |-> ps[q[i]]] : q \in Permutations(DOMAIN ps) }

DistinctEmails(ps) ==
    \A i, j \in DOMAIN ps : i # j => ps[i].email # ps[j].email

\* the consumed input records that went to output record k, and the first of them
Members(k) == {i \in 1..pos : group[i] = k}
First(k) == CHOOSE i \in Members(k) : \A j \in Members(k) : i <= j

RECURSIVE SumCommits(_)
SumCommits(I) ==
    IF I = {} THEN 0
    ELSE LET i == CHOOSE x \in I : TRUE
         IN persons[i].num_commits + SumCommits(I \ {i})

\* out_persons' is out_persons with record p added into entry k, nothing else touched
MergedInto(k, p) ==
    /\ Len(out_persons') = Len(out_persons)
    /\ \A j \in 1..Len(out_persons) : j # k => out_persons'[j] = out_persons[j]
    /\ out_persons'[k].name = out_persons[k].name
    /\ out_persons'[k].email = out_persons[k].email
    /\ out_persons'[k].num_commits = out_persons[k].num_commits + p.num_commits
    /\ out_persons'[k].hours = out_persons[k].hours + p.hours
    /\ out_persons'[k].files = AddFiles(out_persons[k].files, p.files)
    /\ out_persons'[k].lines = AddLines(out_persons[k].lines, p.lines)

\* map' is map with key k bound to v, nothing else touched
Indexed(map, map2, k, v) ==
    /\ DOMAIN map2 = DOMAIN map \cup {k}
    /\ map2[k] = v
    /\ \A x \in DOMAIN map : x # k => map2[x] = map[x]

----------------------------------------------------------------------------
\* C7 (as claimed): any two orderings of the same records give outputs with
\* the same multiset of commit, file and line totals.
C7_OrderInsensitive ==
    DedupReturned
        => \A o \in Orderings(persons) :
              BagOfCounters(deduplicate_identities(o)) = BagOfCounters(out_persons)

\* C7 (amended): for per-email records, that is a list in which no email
\* occurs twice, any two orderings give outputs with the same multiset of
\* commit, file and line totals.  (A list that repeats an email can be
\* grouped differently in different orders.)
C7_OrderInsensitivePerEmail ==
    (DedupReturned /\ DistinctEmails(persons))
        => \A o \in Orderings(persons) :
              BagOfCounters(deduplicate_identities(o)) = BagOfCounters(out_persons)

\* three records with distinct emails, two of them merged, and an ordering
\* that lists the output records differently
C7_Witness ==
    /\ DedupReturned
    /\ DistinctEmails(persons)
    /\ Len(persons) = 3
    /\ Len(out_persons) = 2
    /\ \E o \in Orderings(persons) : deduplicate_identities(o) # out_persons

----------------------------------------------------------------------------
\* C8: one left-to-right pass: a record whose email is indexed is merged into
\* that email's output record and its name is indexed to the same record;
\* otherwise a record whose name is indexed is merged into that name's output
\* record and its email is indexed to the same record; otherwise it is
\* appended and both keys are indexed to the new record.  Output records
\* appear in the order of the first record of their group and carry the name
\* and email of that record (and the commits of all records of the group).
C8_SinglePass ==
    /\ [][pos' = pos + 1 =>
            LET p == persons[pos + 1]
            IN IF p.email \in DOMAIN email_to_index
               THEN /\ MergedInto(email_to_index[p.email], p)
                    /\ Indexed(name_to_index, name_to_index', p.name, email_to_index[p.email])
                    /\ email_to_index' = email_to_index
               ELSE IF p.name \in DOMAIN name_to_index
               THEN /\ MergedInto(name_to_index[p.name], p)
                    /\ Indexed(email_to_index, email_to_index', p.email, name_to_index[p.name])
                    /\ name_to_index' = name_to_index
               ELSE /\ out_persons' = Append(out_persons, p)
                    /\ Indexed(email_to_index, email_to_index', p.email, Len(out_persons) + 1)
                    /\ Indexed(name_to_index, name_to_index', p.name, Len(out_persons) + 1)]_vars
    /\ [](\A k \in 1..Len(out_persons) :
            /\ Members(k) # {}
            /\ out_persons[k].name = persons[First(k)].name
            /\ out_persons[k].email = persons[First(k)].email
            /\ out_persons[k].num_commits = SumCommits(Members(k))
            /\ \A j \in 1..Len(out_persons) : k < j => First(k) < First(j))

\* the second record is merged by its email and brings a new name, the third
\* is merged through that name and brings a new email
C8_Witness ==
    /\ DedupReturned
    /\ Len(persons) = 3
    /\ Len(out_persons) = 1
    /\ persons[2].email = persons[1].email
    /\ persons[2].name # persons[1].name
    /\ persons[3].name = persons[2].name
    /\ persons[3].email # persons[1].email

----------------------------------------------------------------------------
\* Derived notions used by the properties of the snapshot: the rules that
\* were inserted, read off the history rather than the table

SameEmail(e, sig) == Lower(e.old_email) = Lower(sig.email)

\* positions of the inserted name+email rules whose key matches the signature
NameRules(sig) ==
    {i \in DOMAIN inserted :
        /\ inserted[i].old_name # None
        /\ SameEmail(inserted[i], sig)
        /\ Lower(inserted[i].old_name[1]) = Lower(sig.name)}

\* positions of the inserted email-only rules whose key matches the signature
EmailRules(sig) ==
    {i \in DOMAIN inserted : inserted[i].old_name = None /\ SameEmail(inserted[i], sig)}

\* positions of the inserted rules for the signature's email, of either shape
RulesForEmail(sig) == {i \in DOMAIN inserted : SameEmail(inserted[i], sig)}

Latest(I)   == CHOOSE i \in I : \A j \in I : j <= i
Earliest(I) == CHOOSE i \in I : \A j \in I : i <= j

\* the signature a rule turns sig into; an email the rule does not replace
\* becomes the email of the first rule inserted for that bucket
Applied(e, sig) ==
    signature(IF e.new_name = None THEN sig.name ELSE e.new_name[1],
              IF e.new_email = None
              THEN inserted[Earliest(RulesForEmail(sig))].old_email
              ELSE e.new_email[1])

Reversed(es) == [i \in DOMAIN es |-> es[Len(es) + 1 - i]]

----------------------------------------------------------------------------
\* C9: with an email-only rule and a name+email rule for the same email
\* (compared case-insensitively) in the table, a signature matching both
\* keys resolves through the name+email rule and a signature matching only
\* the email resolves through the email-only rule, in whichever order the
\* rules were inserted; in particular for the two rules and the two
\* signatures of non_name_and_name_mappings_will_not_clash.
C9_Precedence ==
    query # None =>
        LET sig == query[1]
        IN /\ (NameRules(sig) # {} /\ EmailRules(sig) # {})
                => answer = Some(Applied(inserted[Latest(NameRules(sig))], sig))
           /\ (NameRules(sig) = {} /\ EmailRules(sig) # {})
                => answer = Some(Applied(inserted[Latest(EmailRules(sig))], sig))
           /\ (inserted \in {ClashEntries, Reversed(ClashEntries)})
                => /\ sig = signature("replace-by-email", "Old-Email")
                        => answer = Some(signature("new-name", "old-email"))
                   /\ sig = signature("old-name", "Old-Email")
                        => answer = Some(signature("other-new-name", "other-new-email"))

\* the name+email rule was inserted first, the email-only rule second, under
\* emails that differ in case; the signature matches both and gets the name
\* of the name+email rule
C9_Witness ==
    /\ Len(inserted) = 2
    /\ inserted[1].old_name # None
    /\ inserted[2].old_name = None
    /\ inserted[1].old_email # inserted[2].old_email
    /\ inserted[1].new_name # None
    /\ inserted[2].new_name # None
    /\ inserted[1].new_name # inserted[2].new_name
    /\ query # None
    /\ NameRules(query[1]) = {1}
    /\ EmailRules(query[1]) = {2}
    /\ answer # None
    /\ answer[1].name = inserted[1].new_name[1]

----------------------------------------------------------------------------
\* C10: resolve always returns a signature; it is the value of try_resolve
\* when there is one, and the input unchanged when try_resolve returns None,
\* which happens exactly when no rule was inserted for the email or only
\* name-specific rules none of which matches the name.
C10_ResolveTotal ==
    query # None =>
        LET sig == query[1]
        IN /\ resolved # None
           /\ resolved[1].time = sig.time
           /\ answer # None => resolved = answer
           /\ answer = None => resolved = Some(sig)
           /\ (answer = None) <=> (NameRules(sig) = {} /\ EmailRules(sig) = {})

\* the email has only a name-specific rule, for another name, and is written
\* in another case than the rule's: try_resolve finds nothing and resolve
\* returns the input as it came
C10_Witness ==
    /\ query # None
    /\ answer = None
    /\ RulesForEmail(query[1]) # {}
    /\ \A i \in RulesForEmail(query[1]) : inserted[i].old_email # query[1].email
    /\ resolved = query

----------------------------------------------------------------------------
\* the match key of a rule: its normalized email, and its normalized name if
\* it has one
MatchKey(e) ==
    <<Lower(e.old_email), IF e.old_name = None THEN None ELSE Some(Lower(e.old_name[1]))>>

\* positions of the inserted rules with the match key K
RulesWithKey(K) == {i \in DOMAIN inserted : MatchKey(inserted[i]) = K}

\* positions in the list es of rules of those with the match key K
EntriesWithKey(es, K) == {k \in DOMAIN es : MatchKey(es[k]) = K}

\* C11: last write wins.  After inserting rules one at a time, entries()
\* holds exactly one rule for every match key that was inserted (normalized
\* email, or normalized email and name), and its replacement is all of, and
\* only, the replacement of the last rule inserted with that key; a signature
\* resolved through a key gets the replacement of the last rule inserted with
\* that key and nothing of an earlier one.
C11_LastWriteWins ==
    /\ LET es == entries(snapshot)
       IN /\ \A i \in DOMAIN inserted :
                LET K    == MatchKey(inserted[i])
                    last == inserted[Latest(RulesWithKey(K))]
                    at   == EntriesWithKey(es, K)
                IN /\ Cardinality(at) = 1
                   /\ \A k \in at :
                         /\ es[k].new_name = last.new_name
                         /\ es[k].new_email = last.new_email
          /\ Len(es) = Cardinality({MatchKey(inserted[i]) : i \in DOMAIN inserted})
    /\ query # None =>
          LET sig  == query[1]
              I    == IF NameRules(sig) # {} THEN NameRules(sig) ELSE EmailRules(sig)
          IN I # {} =>
                LET last == inserted[Latest(I)]
                IN /\ answer # None
                   /\ answer[1].name = IF last.new_name = None THEN sig.name
                                       ELSE last.new_name[1]
                   /\ last.new_email # None => answer[1].email = last.new_email[1]

\* two rules with the same key written in different case; the first replaces
\* name and email, the second only the email: one rule is left, and a
\* matching signature keeps its own name
C11_Witness ==
    /\ Len(inserted) = 2
    /\ MatchKey(inserted[1]) = MatchKey(inserted[2])
    /\ inserted[1].old_email # inserted[2].old_email
    /\ inserted[1].new_name # None
    /\ inserted[2].new_name = None
    /\ Len(entries(snapshot)) = 1
    /\ query # None
    /\ answer # None
    /\ answer[1].name = query[1].name
    /\ answer[1].email = inserted[2].new_email[1]

----------------------------------------------------------------------------
\* positions of the inserted rules that apply to the signature: those of the
\* name+email rules matching it if there are any, else those of the
\* email-only rules, both compared case-insensitively
Matching(sig) == IF NameRules(sig) # {} THEN NameRules(sig) ELSE EmailRules(sig)

\* C12 (as claimed): a rule matches whatever the case of the signature's
\* email and name, and every field the matching rule does not replace, name
\* or email, comes out as the input wrote it.
C12_InputCasingKept ==
    query # None =>
        LET sig == query[1]
        IN Matching(sig) # {} =>
              LET rule == inserted[Latest(Matching(sig))]
              IN /\ answer # None
                 /\ rule.new_name = None => answer[1].name = sig.name
                 /\ rule.new_email = None => answer[1].email = sig.email

\* C12 (amended): a rule matches whatever the case of the signature's email
\* and name; a name the matching rule does not replace comes out as the
\* input wrote it, not as the rule stores it; an email the rule does not
\* replace comes out as the table stores it for the bucket, which is the
\* input's email up to case only.
C12_InputNameKept ==
    query # None =>
        LET sig == query[1]
        IN Matching(sig) # {} =>
              LET rule == inserted[Latest(Matching(sig))]
              IN /\ answer # None
                 /\ rule.new_name = None => answer[1].name = sig.name
                 /\ rule.new_email = None =>
                       /\ answer[1].email = snapshot[Lower(sig.email)].old_email
                       /\ Lower(answer[1].email) = Lower(sig.email)

\* a name+email rule that replaces only the email, stored under a name and an
\* email written in another case than the signature's: it matches, and the
\* signature keeps its own spelling of the name
C12_Witness ==
    /\ query # None
    /\ NameRules(query[1]) # {}
    /\ LET rule == inserted[Latest(NameRules(query[1]))]
       IN /\ rule.new_name = None
          /\ rule.old_name[1] # query[1].name
          /\ rule.old_email # query[1].email
    /\ \A i \in NameRules(query[1]) : inserted[i].old_name[1] # query[1].name
    /\ answer # None
    /\ answer[1].name = query[1].name

----------------------------------------------------------------------------
\* C13: when the rule that applies supplies a new email, the resolved email
\* is exactly that email; when it supplies none, the resolved email is the
\* email the table stores for the bucket that was looked up, which is the
\* email of a rule inserted for that bucket and may differ from the input's
\* in case.  With the single rule ByEmail("old-email") -> Name("new-name"),
\* ("replace-by-email", "Old-Email") resolves to ("new-name", "old-email").
C13_CanonicalEmail ==
    query # None =>
        LET sig == query[1]
        IN /\ Matching(sig) # {} =>
                LET rule == inserted[Latest(Matching(sig))]
                IN /\ answer # None
                   /\ rule.new_email # None => answer[1].email = rule.new_email[1]
                   /\ rule.new_email = None =>
                         /\ answer[1].email = snapshot[Lower(sig.email)].old_email
                         /\ \E i \in RulesForEmail(sig) :
                               answer[1].email = inserted[i].old_email
           /\ (/\ inserted = <<change_name_by_email("new-name", "old-email")>>
               /\ sig = signature("replace-by-email", "Old-Email"))
                => answer = Some(signature("new-name", "old-email"))

\* the scenario of the claim: the only rule replaces the name, the input
\* writes the email in another case, the output carries the table's email
C13_Witness ==
    /\ inserted = <<change_name_by_email("new-name", "old-email")>>
    /\ query = Some(signature("replace-by-email", "Old-Email"))
    /\ answer = Some(signature("new-name", "old-email"))
    /\ resolved = answer

----------------------------------------------------------------------------
\* Derived notions used by the properties of estimate_hours

EstReturned == est_pc = "returned"

\* the list is newest first: no commit is later than the one before it
NewestFirst(cs) ==
    \A i \in 1..(Len(cs) - 1) : cs[i].sig.seconds >= cs[i + 1].sig.seconds

\* the time in seconds from commit i+1 of the list (older) to commit i (newer)
Gap(cs, i) == cs[i].sig.seconds - cs[i + 1].sig.seconds

TwoHours == 2 * TicksPerHour

----------------------------------------------------------------------------
\* C14: for a non-empty newest-first list the hours returned are the 2-hour
\* allowance, once, plus for every adjacent pair gap/60 hours (the gap in
\* minutes) when the gap is below 120 minutes and 2 hours when it is 120
\* minutes or more, however large; one commit gives exactly 2 hours; the
\* commit count is the length of the list.
C14_Hours ==
    (EstReturned /\ NewestFirst(author_commits)) =>
        LET cs == author_commits
            w  == work_by_email[1]
        IN /\ w.hours = TwoHours
                + SumOver([i \in 1..(Len(cs) - 1) |->
                              IF Gap(cs, i) < 120 * 60 THEN Gap(cs, i) ELSE TwoHours],
                          Len(cs) - 1)
           /\ Len(cs) = 1 => w.hours = TwoHours
           /\ w.num_commits = Len(cs)

\* three commits, newest first: a gap of 119 minutes 59 seconds and a gap
\* larger than the timestamp type can hold
C14_Witness ==
    /\ EstReturned
    /\ Len(author_commits) = 3
    /\ Gap(author_commits, 1) = 7199
    /\ Gap(author_commits, 2) > MaxSeconds
    /\ work_by_email[1].hours = TwoHours + 7199 + TwoHours
    /\ work_by_email[1].num_commits = 3

----------------------------------------------------------------------------
\* Derived notions used by the properties of the diff callback

\* whether the entry was a blob before the change and is one after it; an
\* added entry was nothing before, a deleted entry is nothing after
WasBlob(c) == c.kind # "Addition" /\ IsBlob(c.previous_entry_mode)
IsNowBlob(c) == c.kind # "Deletion" /\ IsBlob(c.entry_mode)

OneAdded    == [added |-> 1, removed |-> 0, modified |-> 0]
OneRemoved  == [added |-> 0, removed |-> 1, modified |-> 0]
OneModified == [added |-> 0, removed |-> 0, modified |-> 1]

\* the was-a-blob x is-a-blob table
BlobTable(was, is) ==
    CASE ~was /\ ~is -> ZeroFiles
      [] ~was /\ is  -> OneAdded
      [] was /\ ~is  -> OneRemoved
      [] was /\ is   -> OneModified

\* the table applied to every kind of change
TableCount(c) == BlobTable(WasBlob(c), IsNowBlob(c))

\* the table applied to modifications; an added or deleted entry counts
\* unless it is a tree
EntryCount(c) ==
    CASE c.kind = "Addition" -> IF c.entry_mode = "Tree" THEN ZeroFiles ELSE OneAdded
      [] c.kind = "Deletion" -> IF c.entry_mode = "Tree" THEN ZeroFiles ELSE OneRemoved
      [] c.kind = "Modification" ->
            BlobTable(IsBlob(c.previous_entry_mode), IsBlob(c.entry_mode))

RECURSIVE SumFiles(_, _)
SumFiles(f, n) == IF n = 0 THEN ZeroFiles ELSE AddFiles(SumFiles(f, n - 1), f[n])

\* a root commit adding one blob of 5 lines, line statistics enabled
RootCommitScenario ==
    (diff = <<Addition("Blob", 5)>> /\ diff_line_stats /\ diff_pos = 1)
        => /\ diff_files.added = 1
           /\ diff_lines.added = 5
           /\ diff_lines.removed = 0

----------------------------------------------------------------------------
\* C15 (as claimed): every change, of whatever kind and entry mode, moves
\* the file counters as the was-a-blob x is-a-blob table says; a root commit
\* adding one blob of 5 lines with line statistics gives files.added = 1,
\* lines.added = 5, lines.removed = 0.
C15_BlobTable ==
    /\ diff_files = SumFiles([i \in 1..diff_pos |-> TableCount(diff[i])], diff_pos)
    /\ RootCommitScenario

\* C15 (amended): a modification moves the file counters as the was-a-blob
\* x is-a-blob table says, a symlink or submodule being no blob; an addition
\* adds one to files.added and a deletion one to files.removed for every
\* entry that is not a tree (blob, executable blob, symlink, submodule) and
\* nothing for a tree; the root commit scenario holds.
C15_FileCounters ==
    /\ diff_files = SumFiles([i \in 1..diff_pos |-> EntryCount(diff[i])], diff_pos)
    /\ RootCommitScenario

\* a symlink is added and counted, then a symlink is changed and not counted
C15_Witness ==
    /\ diff_pos = 2
    /\ diff[1] = Addition("Link", 5)
    /\ diff[2].kind = "Modification"
    /\ diff[2].previous_entry_mode = "Link"
    /\ diff[2].entry_mode = "Link"
    /\ diff_files = OneAdded

----------------------------------------------------------------------------
\* the indexes of the commits of the group
GroupIndexes == {author_commits[i].idx : i \in DOMAIN author_commits}

RECURSIVE SumLines(_, _)
SumLines(f, n) == IF n = 0 THEN ZeroLines ELSE AddLines(SumLines(f, n - 1), f[n])

\* C16: with stats sorted by commit index and no index twice, the files and
\* lines returned are the sums of the stats entries whose index is that of a
\* commit of the group; a commit without an entry adds nothing, an entry of
\* no commit of the group adds nothing, and an empty stats array gives zero
\* totals.
C16_StatsTotals ==
    EstReturned =>
        LET w == work_by_email[1]
        IN /\ w.files = SumFiles([k \in DOMAIN stats |->
                                    IF stats[k].idx \in GroupIndexes
                                    THEN stats[k].files ELSE ZeroFiles],
                                 Len(stats))
           /\ w.lines = SumLines([k \in DOMAIN stats |->
                                    IF stats[k].idx \in GroupIndexes
                                    THEN stats[k].lines ELSE ZeroLines],
                                 Len(stats))
           /\ stats = <<>> => (w.files = ZeroFiles /\ w.lines = ZeroLines)

\* commits 3 and 1, stats for commits 1 and 2: commit 3 has no entry, the
\* entry of commit 2 belongs to another group, the totals are those of 1
C16_Witness ==
    /\ EstReturned
    /\ GroupIndexes = {1, 3}
    /\ author_commits[1].idx = 3
    /\ Len(stats) = 2
    /\ stats[1].idx = 1
    /\ stats[2].idx = 2
    /\ work_by_email[1].files = CommitStat(1).files
    /\ work_by_email[1].lines = CommitStat(1).lines

----------------------------------------------------------------------------
\* C17: the output list only grows at its end; an output record is never
\* removed, never combined with another output record, and keeps its name
\* and email; one step changes the counters of at most one existing record,
\* by those of the input record.  A record with the email of one output
\* record and the name of another is merged into the record of its email
\* and both records stay.
C17_NoRetroactiveMerge ==
    [][pos' = pos + 1 =>
          LET p == persons[pos + 1]
          IN /\ Len(out_persons') >= Len(out_persons)
             /\ \A k \in 1..Len(out_persons) :
                   /\ out_persons'[k].name = out_persons[k].name
                   /\ out_persons'[k].email = out_persons[k].email
                   /\ \/ out_persons'[k] = out_persons[k]
                      \/ /\ out_persons'[k] = merge(out_persons[k], p)
                         /\ \A j \in 1..Len(out_persons) :
                               j # k => out_persons'[j] = out_persons[j]
                         /\ Len(out_persons') = Len(out_persons)
             /\ (/\ p.email \in DOMAIN email_to_index
                 /\ p.name \in DOMAIN name_to_index
                 /\ email_to_index[p.email] # name_to_index[p.name])
                  => /\ MergedInto(email_to_index[p.email], p)
                     /\ out_persons'[name_to_index[p.name]]
                            = out_persons[name_to_index[p.name]]]_vars

\* two records made two output records; the third has the email of the first
\* and the name of the second: it went to the first and there still are two
C17_Witness ==
    /\ pos = 3
    /\ persons[1].email # persons[2].email
    /\ persons[1].name # persons[2].name
    /\ persons[3].email = persons[1].email
    /\ persons[3].name = persons[2].name
    /\ group = <<1, 2, 1>>
    /\ Len(out_persons) = 2
    /\ out_persons[2] = persons[2]
    /\ out_persons[1].name = persons[1].name

----------------------------------------------------------------------------
\* hours, commits, files and lines of a record
Tally(r) == [hours |-> r.hours, num_commits |-> r.num_commits,
             files |-> r.files, lines |-> r.lines]

ZeroTally == [hours |-> 0, num_commits |-> 0, files |-> ZeroFiles, lines |-> ZeroLines]

AddTally(a, b) ==
    [hours |-> a.hours + b.hours, num_commits |-> a.num_commits + b.num_commits,
     files |-> AddFiles(a.files, b.files), lines |-> AddLines(a.lines, b.lines)]

\* the sum of the tallies of the first n records of a list
RECURSIVE Total(_, _)
Total(rs, n) == IF n = 0 THEN ZeroTally ELSE AddTally(Total(rs, n - 1), Tally(rs[n]))

\* the sum of the tallies of the input records with positions in I
RECURSIVE TotalOf(_)
TotalOf(I) ==
    IF I = {} THEN ZeroTally
    ELSE LET i == CHOOSE x \in I : TRUE
         IN AddTally(TotalOf(I \ {i}), Tally(persons[i]))

\* C18: after any number of input records, and so at the end, the sums of
\* hours, commits, files and lines over the output records are the sums over
\* the input records consumed; every consumed record went to exactly one
\* output record, whose counters are the sums of the records that went to
\* it; the output has no more records than were consumed.
C18_Conservation ==
    /\ Total(out_persons, Len(out_persons)) = Total(persons, pos)
    /\ Len(group) = pos
    /\ \A i \in 1..pos : group[i] \in 1..Len(out_persons)
    /\ \A k \in 1..Len(out_persons) : Tally(out_persons[k]) = TotalOf(Members(k))
    /\ Len(out_persons) <= pos

\* three records of different work: the second is merged into the first by
\* its name, the third is promoted
C18_Witness ==
    /\ DedupReturned
    /\ Len(persons) = 3
    /\ group = <<1, 1, 2>>
    /\ persons[2].email # persons[1].email
    /\ Tally(persons[1]) # Tally(persons[2])
    /\ out_persons[1].hours = persons[1].hours + persons[2].hours
    /\ out_persons[1].files = AddFiles(persons[1].files, persons[2].files)

----------------------------------------------------------------------------
\* C19: after any number of input records, no two output records have the
\* same email and no two the same name; the email and the name of every
\* record consumed are keys of email_to_index and name_to_index; every index
\* stored in either table is the index of an existing output record.
C19_IndexesValid ==
    /\ \A j, k \in 1..Len(out_persons) :
          j # k => /\ out_persons[j].email # out_persons[k].email
                   /\ out_persons[j].name # out_persons[k].name
    /\ \A i \in 1..pos :
          /\ persons[i].email \in DOMAIN email_to_index
          /\ persons[i].name \in DOMAIN name_to_index
    /\ \A e \in DOMAIN email_to_index : email_to_index[e] \in 1..Len(out_persons)
    /\ \A n \in DOMAIN name_to_index : name_to_index[n] \in 1..Len(out_persons)

\* three emails and two names consumed, two output records: the third email
\* is indexed to the record found through its name
C19_Witness ==
    /\ pos = 3
    /\ Len(out_persons) = 2
    /\ Cardinality(DOMAIN email_to_index) = 3
    /\ Cardinality(DOMAIN name_to_index) = 2
    /\ email_to_index[persons[3].email] = name_to_index[persons[3].name]
    /\ persons[3].email # out_persons[group[3]].email

----------------------------------------------------------------------------
\* C20: for every non-empty commit list, whatever the order of its
\* timestamps, the hours returned are at least the 2-hour allowance: a
\* commit later in the list with a later timestamp than the one before it
\* subtracts nothing.
C20_NeverBelowAllowance ==
    EstReturned => work_by_email[1].hours >= TwoHours

====
